---- MODULE Spec2Model ----
(***************************************************************************)
(* Model of tiberius/src/plp.rs: the mode selector ReadTyMode::auto and    *)
(* the resumable reader ReadTyState::read for fixed-size and partially     *)
(* length-prefixed (PLP) values.                                           *)
(*                                                                         *)
(* One Advance step is one whole call of ReadTyState::read against the     *)
(* byte source.  Every `?` of the code is an early return carrying the     *)
(* source's error: insufficient data is the source's WouldBlock error,     *)
(* a hard failure is any other I/O error.                                  *)
(***************************************************************************)
EXTENDS Integers, Sequences, FiniteSets, TLC

VARIABLES
    mode,             \* ReadTyState.mode            (plp.rs:31)
    data,             \* ReadTyState.data            (plp.rs:32)
    chunk_data_left,  \* ReadTyState.chunk_data_left (plp.rs:33)
    stream,           \* every byte the transport will ever carry
    pos,              \* bytes of stream the source has handed out
    avail,            \* bytes of stream that have arrived at the source
    atomic,           \* the source's fixed-width reads are all-or-nothing
    ret,              \* what the last call of read returned
    obs,              \* observation of the last call (where it stopped, what failed)
    hist,             \* observations accumulated over all calls
    wire              \* the value that was encoded into stream

vars == <<mode, data, chunk_data_left, stream, pos, avail, atomic, ret, obs, hist, wire>>

----------------------------------------------------------------------------
(* Bounds of the model *)

\* longest value, in payload bytes
MaxLen == 5
\* most PLP chunks before the terminator
MaxChunks == 2

\* payload bytes: byte i of every encoded value is Payload(i)
Pattern == <<7, 0, 9, 1, 8, 2>>
Payload(i) == Pattern[((i - 1) % Len(Pattern)) + 1]

\* bytes on the shared stream that follow the encoded value
Tails == {<<1, 0, 7>>}
\* the same after a fixed-size value: also the start of a value whose 2-byte
\* prefix is 0xffff
FixedTails == Tails \cup {<<255, 255, 7>>}

----------------------------------------------------------------------------
(* Small helpers *)

RECURSIVE Concat(_)
Concat(ss) == IF ss = <<>> THEN <<>> ELSE Head(ss) \o Concat(Tail(ss))

RECURSIVE SumLen(_)
SumLen(ss) == IF ss = <<>> THEN 0 ELSE Len(Head(ss)) + SumLen(Tail(ss))

SeqsUpTo(S, lo, hi) == UNION {[1..n -> S] : n \in lo..hi}

----------------------------------------------------------------------------
(* ReadTyMode *)

FixedSize(n) == [kind |-> "FixedSize", n |-> n]
Plp == [kind |-> "Plp", n |-> 0]
Unset == [kind |-> "Unset", n |-> 0]

\* (mutant) the threshold compared with <= instead of <
auto_Inclusive(size) == IF size <= 65535 THEN FixedSize(size) ELSE Plp

\* ReadTyMode::auto
auto(size) == IF size < 65535 THEN FixedSize(size) ELSE Plp

----------------------------------------------------------------------------
(* Option<Vec<u8>> *)

None == [some |-> FALSE, buf |-> <<>>]
Some(b) == [some |-> TRUE, buf |-> b]

----------------------------------------------------------------------------
(* The byte source: `input: &mut impl ReadBytesExt`.                       *)
(*                                                                         *)
(* src = [bytes, lim, kind, atomic, allocOk]: during one call of read the  *)
(* source can hand out bytes[pos+1 .. lim]; a read that needs more fails   *)
(* with the error `kind` ("WouldBlock" for insufficient data, "Io" for a   *)
(* hard failure).  byteorder reads a fixed-width integer with read_exact,  *)
(* and std::io::Read::read_exact leaves unspecified how many bytes a       *)
(* failed call has consumed: a source with `atomic` set consumes nothing   *)
(* (its fixed-width reads are all-or-nothing), any other source has        *)
(* consumed the bytes it had (the default read_exact).                     *)
(***************************************************************************)

\* io::Read::read_exact on a buffer of w bytes
read_exact(src, p, w) ==
    IF p + w <= src.lim
    THEN [ok |-> TRUE, bytes |-> SubSeq(src.bytes, p + 1, p + w), pos |-> p + w,
          err |-> ""]
    ELSE [ok |-> FALSE, bytes |-> <<>>, pos |-> IF src.atomic THEN p ELSE src.lim,
          err |-> src.kind]

\* the integer read, given the result r of read_exact: val is 0 after a failure
IntOf(r, val) == [ok |-> r.ok, val |-> IF r.ok THEN val ELSE 0, pos |-> r.pos, err |-> r.err]

\* LittleEndian::read_u16, read_u32 of a buffer
LeU8(r) == IntOf(r, r.bytes[1])
LeU16(r) == IntOf(r, r.bytes[1] + 256 * r.bytes[2])
LeU32(r) ==
    IntOf(r, r.bytes[1] + 256 * r.bytes[2] + 65536 * r.bytes[3] + 16777216 * r.bytes[4])

\* LittleEndian::read_u64 of a buffer.  A u64 is kept as four 16-bit limbs, most
\* significant first.
LeU64(r) ==
    [ok |-> r.ok,
     val |-> IF r.ok
             THEN <<r.bytes[7] + 256 * r.bytes[8], r.bytes[5] + 256 * r.bytes[6],
                    r.bytes[3] + 256 * r.bytes[4], r.bytes[1] + 256 * r.bytes[2]>>
             ELSE <<0, 0, 0, 0>>,
     pos |-> r.pos, err |-> r.err]

\* ReadBytesExt::read_u8, read_u16, read_u32, read_u64 ::<LittleEndian>
read_u8(src, p) == LeU8(read_exact(src, p, 1))
read_u16(src, p) == LeU16(read_exact(src, p, 2))
read_u32(src, p) == LeU32(read_exact(src, p, 4))
read_u64(src, p) == LeU64(read_exact(src, p, 8))

\* `x as u64` of the u16 in r
U16AsU64(r) == [r EXCEPT !.val = <<0, 0, 0, r.val>>]

\* 0xffffffffffffffff
U64Max == <<65535, 65535, 65535, 65535>>
\* 0xfffffffffffffffe
U64MaxMinus1 == <<65535, 65535, 65535, 65534>>

\* `size as usize` (usize is 64 bits wide; the only call site holds a u16)
AsUsize(size) == size[4] + 65536 * size[3]

----------------------------------------------------------------------------
(* ReadTyState *)

\* (mutant) a state constructed with an empty buffer in place
new_Started(m) == [mode |-> m, data |-> Some(<<>>), chunk_data_left |-> 0]

\* ReadTyState::new
new(m) == [mode |-> m, data |-> None, chunk_data_left |-> 0]

\* a read of the source as the decoder sees it: w is the width read, io tells
\* whether the source's read succeeded
Seen(r, w) ==
    [ok |-> r.ok, val |-> r.val, pos |-> r.pos, err |-> r.err, w |-> w, io |-> r.ok]
NotRead(p) == [ok |-> TRUE, val |-> 0, pos |-> p, err |-> "", w |-> 0, io |-> TRUE]

\* the reads one call has made so far: of a chunk header, of a body byte, the
\* bytes read, the reads that failed, a read made after a failed one, the
\* fields data and chunk_data_left as they were when the last read was attempted,
\* whether a size prefix was read, and the lengths declared by the values read
\* into chunk_data_left
NoLog ==
    [head |-> FALSE, body |-> FALSE, bytes |-> 0, fails |-> 0, after |-> FALSE,
     pre |-> [data |-> None, left |-> 0], prefix |-> FALSE, declared |-> 0]
Logged(log, w, ok) ==
    IF w = 0 THEN log
    ELSE [head |-> log.head \/ w = 4,
          body |-> log.body \/ w = 1,
          bytes |-> log.bytes + (IF ok THEN w ELSE 0),
          fails |-> log.fails + (IF ok THEN 0 ELSE 1),
          after |-> log.after \/ log.fails > 0,
          pre |-> log.pre,
          prefix |-> log.prefix,
          declared |-> log.declared]

\* the state's fields d and left, noted as a read of the source is about to be made
Before(log, d, left) == [log EXCEPT !.pre = [data |-> d, left |-> left]]

\* the size prefix has been read
Prefixed(log) == [log EXCEPT !.prefix = TRUE]

\* a length of n bytes has been read from the source: a chunk follows
Declared(log, n) == [log EXCEPT !.declared = @ + n]

\* the length that the size prefix s gives to the single chunk of a fixed-size
\* value; the prefix of a PLP value gives none, its chunks carry their own
PrefixLength(m, s) == IF m.kind = "FixedSize" THEN s.val[4] ELSE 0

\* read, lines 52-55: the size prefix
ReadSize(m, src, p) ==
    IF m.kind = "FixedSize"
    THEN Seen(U16AsU64(read_u16(src, p)), 2)
    ELSE Seen(read_u64(src, p), 8)

\* Vec::with_capacity(len as usize): panics with "capacity overflow" above
\* isize::MAX; a request of 2^32 bytes or more may fail to allocate (abort).
WithCapacity(len, src) ==
    IF len[1] >= 32768 THEN "Abort"
    ELSE IF (len[1] > 0 \/ len[2] > 0) /\ ~src.allocOk THEN "Abort"
    ELSE "Some"

\* (mutant) a 2-byte prefix of 0xffff taken for NULL as well
InitData_U16Null(size, src) ==
    IF size = U64Max \/ size = <<0, 0, 0, 65535>> THEN "None"
    ELSE IF size = U64MaxMinus1 THEN "Some"
    ELSE WithCapacity(size, src)

\* (mutant) the NULL sentinel taken for the unknown-length one
InitData_NullAsUnknown(size, src) ==
    IF size = U64Max THEN "Some"
    ELSE IF size = U64MaxMinus1 THEN "Some"
    ELSE WithCapacity(size, src)

\* read, lines 57-61: the buffer that the size prefix asks for
InitData(size, src) ==
    IF size = U64Max THEN "None"
    ELSE IF size = U64MaxMinus1 THEN "Some"
    ELSE WithCapacity(size, src)

\* (mutant) the size carried by the mode taken for the length of the chunk
InitChunk_FromMode(m, size, left) ==
    IF m.kind = "FixedSize" THEN m.n ELSE left

\* (mutant) the low 16 bits of the prefix taken for a chunk length in both modes
InitChunk_AllModes(m, size, left) == size[4]

\* read, lines 64-66: a fixed-size value is a single chunk
InitChunk(m, size, left) ==
    IF m.kind = "FixedSize" THEN AsUsize(size) ELSE left

\* (mutant) the chunk size read as 1 byte instead of 4
ChunkSize_U8(m, src, p) ==
    IF m.kind = "FixedSize" THEN NotRead(p) ELSE Seen(read_u8(src, p), 1)

\* (mutant) the chunk size read as 2 bytes instead of 4
ChunkSize_U16(m, src, p) ==
    IF m.kind = "FixedSize" THEN NotRead(p) ELSE Seen(read_u16(src, p), 2)

\* (mutant) a chunk header read in both modes
ChunkSize_BothModes(m, src, p) == Seen(read_u32(src, p), 4)

\* (mutant) a failed chunk-header read taken for the terminator (unwrap_or(0))
ChunkSize_OrZero(m, src, p) ==
    IF m.kind = "FixedSize" THEN NotRead(p)
    ELSE [Seen(read_u32(src, p), 4) EXCEPT !.ok = TRUE, !.err = ""]

\* read, lines 74-77: the size of the next chunk
ChunkSize(m, src, p) ==
    IF m.kind = "FixedSize" THEN NotRead(p) ELSE Seen(read_u32(src, p), 4)

\* (mutant) chunk_data_left decremented before the byte is read
Pushed_CountFirst(r, buf, left) ==
    [ok |-> r.ok, buf |-> IF r.ok THEN Append(buf, r.val) ELSE buf, left |-> left - 1,
     pos |-> r.pos, err |-> r.err, io |-> r.ok]

\* (mutant) the byte pushed before the `?` has looked at the result of the read
Pushed_Early(r, buf, left) ==
    [ok |-> r.ok, buf |-> Append(buf, r.val), left |-> IF r.ok THEN left - 1 ELSE left,
     pos |-> r.pos, err |-> r.err, io |-> r.ok]

\* (mutant) a failed byte read skipped: the error is dropped and the loop goes on
Pushed_Skip(r, buf, left) ==
    [ok |-> TRUE, buf |-> IF r.ok THEN Append(buf, r.val) ELSE buf, left |-> left - 1,
     pos |-> r.pos, err |-> "", io |-> r.ok]

\* read, lines 85-87, given the result r of read_u8: after the `?`, the byte is
\* counted and pushed
Pushed(r, buf, left) ==
    [ok |-> r.ok, buf |-> IF r.ok THEN Append(buf, r.val) ELSE buf,
     left |-> IF r.ok THEN left - 1 ELSE left, pos |-> r.pos, err |-> r.err,
     io |-> r.ok]

\* read, lines 85-87: one byte of the chunk
ReadByte(src, buf, left, p) == Pushed(read_u8(src, p), buf, left)

\* how the body loop ends: with a failed read (tag "err") or at its break
LoopEnd(tag, err, site, buf, left, p, log) ==
    [tag |-> tag, err |-> err, site |-> site, buf |-> buf, left |-> left, pos |-> p,
     log |-> log]

\* read, lines 71-89: the body loop; OnHeader and OnByte are its two branches,
\* given the chunk size c read and the byte b read
RECURSIVE BodyLoop(_, _, _, _, _, _), OnHeader(_, _, _, _, _, _), OnByte(_, _, _, _)
OnHeader(m, src, buf, left, log, c) ==
    IF ~c.ok THEN LoopEnd("err", c.err, "header", buf, left, c.pos, Logged(log, c.w, c.io))
    ELSE IF c.val = 0
    THEN LoopEnd("break", "", "", buf, left, c.pos, Logged(log, c.w, c.io))
    ELSE BodyLoop(m, src, buf, c.val, c.pos, Declared(Logged(log, c.w, c.io), c.val))

OnByte(m, src, log, b) ==
    IF ~b.ok THEN LoopEnd("err", b.err, "body", b.buf, b.left, b.pos, Logged(log, 1, b.io))
    ELSE BodyLoop(m, src, b.buf, b.left, b.pos, Logged(log, 1, b.io))

BodyLoop(m, src, buf, left, p, log) ==
    IF left = 0
    THEN OnHeader(m, src, buf, left, Before(log, Some(buf), left), ChunkSize(m, src, p))
    ELSE OnByte(m, src, Before(log, Some(buf), left), ReadByte(src, buf, left, p))

\* Poll<Option<Vec<u8>>, Error>
Idle == [tag |-> "Idle", err |-> "", val |-> <<>>]
\* From<io::Error> for Error, applied by every `?`: the error is passed on as it is
ErrorFrom(e) == e
Err(e) == [tag |-> "Err", err |-> ErrorFrom(e), val |-> <<>>]
Ready(d) == [tag |-> IF d.some THEN "ReadySome" ELSE "ReadyNone", err |-> "", val |-> d.buf]
Aborted == [tag |-> "Abort", err |-> "", val |-> <<>>]

\* (mutant) an empty buffer left in place of the one handed out
Take_Empty(d) == [ret |-> Ready(d), data |-> Some(<<>>)]

\* (mutant) the buffer cloned out, not taken
Take_Clone(d) == [ret |-> Ready(d), data |-> d]

\* read, line 93: Ok(Async::Ready(self.data.take()))
Take(d) == [ret |-> Ready(d), data |-> None]

\* the state of the first phase: "go" on to the body, "err" or "abort"
Phase(tag, err, d, left, p, log) ==
    [tag |-> tag, err |-> err, data |-> d, left |-> left, pos |-> p, log |-> log]

\* read, lines 57-66, given the size prefix s read
OnSize(m, d, left, src, s) ==
    IF ~s.ok
    THEN Phase("err", s.err, d, left, s.pos, Logged(Before(NoLog, d, left), s.w, s.io))
    ELSE IF InitData(s.val, src) = "Abort"
    THEN Phase("abort", "", d, left, s.pos,
               Prefixed(Logged(Before(NoLog, d, left), s.w, s.io)))
    ELSE Phase("go", "", IF InitData(s.val, src) = "None" THEN None ELSE Some(<<>>),
               InitChunk(m, s.val, left), s.pos,
               Declared(Prefixed(Logged(Before(NoLog, d, left), s.w, s.io)),
                        PrefixLength(m, s)))

\* read, lines 51-67: the first phase, entered when there is no buffer yet
PhaseA(m, d, left, src, p) ==
    IF d.some THEN Phase("go", "", d, left, p, NoLog)
    ELSE OnSize(m, d, left, src, ReadSize(m, src, p))

\* what a call of read leaves and returns: the state's data and
\* chunk_data_left, the source position, the returned value, what the call read
Outcome(d, left, p, r, log, site) ==
    [data |-> d, left |-> left, pos |-> p, ret |-> r, log |-> log, site |-> site]

\* read, line 93, given the result t of Take
OnTake(t, left, p, log) == Outcome(t.data, left, p, t.ret, log, "")

\* read, lines 70-93, given the end b of the body loop
OnLoopEnd(b) ==
    IF b.tag = "err" THEN Outcome(Some(b.buf), b.left, b.pos, Err(b.err), b.log, b.site)
    ELSE OnTake(Take(Some(b.buf)), b.left, b.pos, b.log)

\* read, lines 69-93, given the state a of the first phase
OnPhaseA(m, src, a) ==
    IF a.tag = "err" THEN Outcome(a.data, a.left, a.pos, Err(a.err), a.log, "prefix")
    ELSE IF a.tag = "abort"
    THEN Outcome(a.data, a.left, a.pos, Aborted, a.log, "prefix")
    ELSE IF a.data.some
    THEN OnLoopEnd(BodyLoop(m, src, a.data.buf, a.left, a.pos, a.log))
    ELSE OnTake(Take(a.data), a.left, a.pos, a.log)

\* ReadTyState::read
read(m, d, left, src, p) == OnPhaseA(m, src, PhaseA(m, d, left, src, p))

----------------------------------------------------------------------------
(* The encoded values put on the stream (wire format of the two modes) *)

LE16(n) == <<n % 256, n \div 256>>
LE32(n) == <<n % 256, (n \div 256) % 256, (n \div 65536) % 256, n \div 16777216>>

PlpNullPrefix == <<255, 255, 255, 255, 255, 255, 255, 255>>
PlpUnknownPrefix == <<254, 255, 255, 255, 255, 255, 255, 255>>
PlpLenPrefix(n) == LE32(n) \o <<0, 0, 0, 0>>
\* 0xfffffffffffffffd: a total length that is neither sentinel
PlpMaxMinus2Prefix == <<253, 255, 255, 255, 255, 255, 255, 255>>

RECURSIVE EncChunks(_)
EncChunks(cs) ==
    IF cs = <<>> THEN LE32(0)
    ELSE LE32(Len(Head(cs))) \o Head(cs) \o EncChunks(Tail(cs))

\* w = [kind, null, prefix, chunks, tail, hint]: hint is the size the mode was
\* selected from
Encode(w) ==
    IF w.kind = "FixedSize" THEN LE16(SumLen(w.chunks)) \o Concat(w.chunks)
    ELSE IF w.null THEN w.prefix
    ELSE w.prefix \o EncChunks(w.chunks)

\* the chunks of the given lengths, filled with the payload pattern
RECURSIVE Fill(_, _)
Fill(lens, from) ==
    IF lens = <<>> THEN <<>>
    ELSE <<[i \in 1..Head(lens) |-> Payload(from + i)]>>
         \o Fill(Tail(lens), from + Head(lens))

RECURSIVE Sum(_)
Sum(ns) == IF ns = <<>> THEN 0 ELSE Head(ns) + Sum(Tail(ns))

\* the chunk lengths of the PLP values: nonzero, at most MaxChunks chunks
ChunkLens == {ls \in SeqsUpTo(1..MaxLen, 0, MaxChunks) : Sum(ls) <= MaxLen}

\* the chunk lengths of the PLP values sent with a total length in the prefix
\* that is not the real one
MisdeclaredLens == {<<2, 1>>}

FixedWires ==
    {[kind |-> "FixedSize", null |-> FALSE, prefix |-> <<>>,
      chunks |-> IF n = 0 THEN <<>> ELSE Fill(<<n>>, 0), tail |-> t, hint |-> 0] :
        n \in 0..MaxLen, t \in FixedTails}

PlpWires ==
    {[kind |-> "Plp", null |-> TRUE, prefix |-> PlpNullPrefix, chunks |-> <<>>,
      tail |-> t, hint |-> 0] : t \in Tails}
    \cup
    UNION {{[kind |-> "Plp", null |-> FALSE, prefix |-> px, chunks |-> Fill(ls, 0),
              tail |-> t, hint |-> 0] :
              px \in {PlpUnknownPrefix, PlpLenPrefix(SumLen(Fill(ls, 0)))}, t \in Tails} :
           ls \in ChunkLens}
    \cup
    UNION {{[kind |-> "Plp", null |-> FALSE, prefix |-> px, chunks |-> Fill(ls, 0),
              tail |-> t, hint |-> 0] :
              px \in {PlpLenPrefix(0), PlpLenPrefix(SumLen(Fill(ls, 0)) + 1),
                      PlpMaxMinus2Prefix}, t \in Tails} :
           ls \in MisdeclaredLens}

\* size hints handed to ReadTyMode::auto
Hints == {0, 1, MaxLen, 65534, 65535, 65536}

\* the values sent to a decoder whose mode was selected from `size`: a
\* fixed-size value of any length, whether or not it is the size the mode carries
WiresFor(size) ==
    IF size > 65535 THEN {w \in PlpWires : w.null}
    ELSE IF size = 65535 THEN PlpWires
    ELSE FixedWires

----------------------------------------------------------------------------
(* Observations *)

\* obs: where the last call stopped (site), how many of its reads failed, whether
\* it read again after a failed read, the error the source raised, whether the
\* whole stream had arrived, the fields as they were when the read that failed
\* was attempted, the source position at which the value the call worked on began
NoObs ==
    [site |-> "", fails |-> 0, after |-> FALSE, srcErr |-> "", all |-> FALSE,
     pre |-> NoLog.pre, from |-> 0]
\* hist: a failed read consumed bytes (torn); a call was suspended inside a chunk
\* body (suspBody) or at a prefix or chunk header (suspHead); a chunk header or a
\* body byte was read; the number of values completed; the number of size
\* prefixes read; the lengths declared for the value being decoded; the source
\* position at which that value began
NoHist == [torn |-> FALSE, suspBody |-> FALSE, suspHead |-> FALSE, head |-> FALSE,
           body |-> FALSE, values |-> 0, prefixes |-> 0, declared |-> 0, start |-> 0]

IsComplete(r) == r.tag \in {"ReadySome", "ReadyNone"}
Suspended(r) == r.tag = "Err" /\ r.err = "WouldBlock"
Failed(r) == r.tag = "Err" /\ r.err = "Io"

----------------------------------------------------------------------------
(* The state machine *)

Init ==
    /\ mode = Unset
    /\ data = None
    /\ chunk_data_left = 0
    /\ stream = <<>>
    /\ pos = 0
    /\ avail = 0
    /\ atomic = TRUE
    /\ ret = Idle
    /\ obs = NoObs
    /\ hist = NoHist
    /\ wire = [kind |-> "Unset", null |-> FALSE, prefix |-> <<>>, chunks |-> <<>>,
               tail |-> <<>>, hint |-> 0]

\* ReadTyState::new(ReadTyMode::auto(size)) for a value about to arrive
New(size, w, at) ==
    /\ mode = Unset
    /\ w \in WiresFor(size)
    /\ LET st == new(auto(size))
       IN /\ mode' = st.mode
          /\ data' = st.data
          /\ chunk_data_left' = st.chunk_data_left
    /\ wire' = [w EXCEPT !.hint = size]
    /\ stream' = Encode(w) \o w.tail
    /\ atomic' = at
    /\ UNCHANGED <<pos, avail, ret, obs, hist>>

\* more bytes of the stream arrive at the source
Supply(a) ==
    /\ mode # Unset
    /\ a > avail
    /\ a <= Len(stream)
    /\ avail' = a
    /\ UNCHANGED <<mode, data, chunk_data_left, stream, pos, atomic, ret, obs, hist, wire>>

\* the state after a call of read that left and returned r
Called(r, lim, kind) ==
    /\ kind = "Io" => r.log.fails > 0
    /\ data' = r.data
    /\ chunk_data_left' = r.left
    /\ pos' = r.pos
    /\ ret' = r.ret
    /\ obs' = [site |-> r.site, fails |-> r.log.fails, after |-> r.log.after,
               srcErr |-> IF r.log.fails > 0 THEN kind ELSE "",
               all |-> lim = Len(stream),
               pre |-> IF r.log.fails > 0 THEN r.log.pre ELSE NoLog.pre,
               from |-> hist.start]
    /\ hist' = [torn |-> hist.torn \/ (r.ret.tag = "Err" /\ r.pos - pos > r.log.bytes),
                suspBody |-> hist.suspBody \/ (Suspended(r.ret) /\ r.site = "body"),
                suspHead |-> hist.suspHead \/ (Suspended(r.ret) /\ r.site # "body"),
                head |-> hist.head \/ r.log.head,
                body |-> hist.body \/ r.log.body,
                values |-> hist.values + (IF IsComplete(r.ret) THEN 1 ELSE 0),
                prefixes |-> hist.prefixes + (IF r.log.prefix THEN 1 ELSE 0),
                declared |-> IF IsComplete(r.ret) THEN 0
                             ELSE hist.declared + r.log.declared,
                start |-> IF IsComplete(r.ret) THEN r.pos ELSE hist.start]

\* one call of ReadTyState::read
\* (a caller abandons the value after a hard failure)
Advance(lim, kind, allocOk) ==
    /\ mode # Unset
    /\ ret.tag # "Abort"
    /\ ~Failed(ret)
    /\ lim >= pos
    /\ lim <= avail
    /\ kind = "WouldBlock" => lim = avail
    /\ Called(read(mode, data, chunk_data_left,
                   [bytes |-> stream, lim |-> lim, kind |-> kind, atomic |-> atomic,
                    allocOk |-> allocOk], pos),
              lim, kind)
    /\ UNCHANGED <<mode, stream, avail, atomic, wire>>

Next ==
    \/ /\ mode = Unset
       /\ \E size \in Hints : \E w \in WiresFor(size) : \E at \in BOOLEAN :
             New(size, w, at)
    \/ \E a \in 1..Len(stream) : Supply(a)
    \/ \E kind \in {"WouldBlock", "Io"} :
          \E lim \in (IF kind = "WouldBlock" THEN {avail} ELSE pos..avail) :
             \E allocOk \in (IF mode.kind = "Plp" /\ ~data.some THEN BOOLEAN ELSE {TRUE}) :
                Advance(lim, kind, allocOk)

Spec == Init /\ [][Next]_vars

----------------------------------------------------------------------------
(* Reference points for the claims *)

\* the payload that was encoded
Expected == Concat(wire.chunks)

\* a single call of read over the whole byte stream, on a fresh state
OnePass ==
    read(mode, None, 0,
         [bytes |-> stream, lim |-> Len(stream), kind |-> "WouldBlock",
          atomic |-> TRUE, allocOk |-> TRUE], 0)

IsPrefix(a, b) == Len(a) <= Len(b) /\ SubSeq(b, 1, Len(a)) = a

\* the last call completed the first value of the stream
FirstDone == IsComplete(ret) /\ hist.values = 1

\* the bytes that the chunks cs take on a PLP stream: a 4-byte header and the
\* body for each
RECURSIVE ChunkBytes(_)
ChunkBytes(cs) == IF cs = <<>> THEN 0 ELSE 4 + Len(Head(cs)) + ChunkBytes(Tail(cs))

\* the 2-byte little-endian value found on the stream at offset p
U16At(p) == stream[p + 1] + 256 * stream[p + 2]

----------------------------------------------------------------------------
(* Claims *)

\* C1: a call that runs out of bytes inside a chunk body is Suspended with the
\* bytes decoded so far kept in the buffer, and once the remaining bytes have
\* arrived the calls that follow return exactly what a single call over the
\* whole stream returns, having consumed the same bytes: no payload byte is
\* lost and none is duplicated.
C1_IdempotentResumption ==
    /\ (obs.site = "body" /\ obs.srcErr = "WouldBlock") => Suspended(ret)
    /\ (Suspended(ret) /\ obs.site = "body" /\ hist.values = 0 /\ ~hist.torn)
         => /\ data.some
            /\ chunk_data_left > 0
            /\ IsPrefix(data.buf, Expected)
            /\ Len(data.buf) + chunk_data_left <= Len(Expected)
    /\ (FirstDone /\ hist.suspBody /\ ~hist.torn)
         => /\ ret = OnePass.ret
            /\ pos = OnePass.pos

C1_Witness ==
    /\ FirstDone
    /\ hist.suspBody
    /\ ~hist.torn
    /\ ret.tag = "ReadySome"
    /\ Len(ret.val) >= 2

\* C2: in Plp mode a stream of the unknown-length prefix, chunks of nonzero
\* length and the zero-length terminator decodes to the concatenation of the
\* chunks' bytes in stream order, and the call that has the whole stream
\* completes.
C2_PlpConcatenation ==
    (mode.kind = "Plp" /\ wire.prefix = PlpUnknownPrefix /\ ~hist.torn)
      => /\ FirstDone => ret = Ready(Some(Expected))
         /\ (obs.all /\ ret.tag # "Idle" /\ ~Failed(ret)) => hist.values >= 1

C2_Witness ==
    /\ mode.kind = "Plp"
    /\ wire.prefix = PlpUnknownPrefix
    /\ Len(wire.chunks) = 2
    /\ FirstDone
    /\ ~hist.torn
    /\ ret.val = wire.chunks[1] \o wire.chunks[2]

\* C3: a FixedSize(n) decoder on a FixedSize(n) stream yields exactly the n raw
\* bytes that follow the 2-byte prefix, and no chunk header is ever read from
\* the source in FixedSize mode.
C3_FixedSizeBody ==
    mode.kind = "FixedSize"
      => /\ ~hist.head
         /\ (FirstDone /\ ~hist.torn /\ mode.n = SumLen(wire.chunks))
              => /\ ret.tag = "ReadySome"
                 /\ Len(ret.val) = mode.n
                 /\ ret.val = SubSeq(stream, 3, 2 + mode.n)

C3_Witness ==
    /\ mode.kind = "FixedSize"
    /\ mode.n = MaxLen
    /\ FirstDone
    /\ ~hist.torn
    /\ Len(ret.val) = MaxLen

\* C4: in Plp mode an all-bits-set prefix completes with NULL in the call that
\* reads it, after exactly the 8 prefix bytes: no chunk header and no body byte
\* is read.
C4_PlpNull ==
    (mode.kind = "Plp" /\ wire.null /\ ~hist.torn)
      => IF pos = 0 THEN hist.values = 0
         ELSE /\ pos = 8
              /\ hist.values = 1
              /\ ~hist.head
              /\ ~hist.body
              /\ ret.tag # "Abort"
              /\ IsComplete(ret) => ret = Ready(None)

C4_Witness ==
    /\ mode.kind = "Plp"
    /\ wire.null
    /\ ret.tag = "ReadyNone"
    /\ pos = 8

\* C5: auto(s) is FixedSize(s) exactly when s < 0xFFFF and Plp otherwise.
C5_ModeSelection ==
    mode # Unset
      => /\ (wire.hint < 65535) <=> (mode = FixedSize(wire.hint))
         /\ (wire.hint >= 65535) <=> (mode = Plp)

C5_Witness ==
    /\ mode = Plp
    /\ wire.hint = 65535

\* C6 (as claimed): after a pause at a size prefix or a chunk header no source
\* byte has been lost, and the resumed decode returns what a single pass over
\* the whole stream returns.
C6_HeaderPause ==
    hist.suspHead
      => /\ ~hist.torn
         /\ FirstDone => (ret = OnePass.ret /\ pos = OnePass.pos)

\* C7 (as claimed): every call returns Suspended, CompleteNull or
\* CompleteValue(bytes).
C7_ThreeOutcomes ==
    ret.tag # "Idle" => (Suspended(ret) \/ IsComplete(ret))

\* C7 (amended): every call that returns yields exactly one of four outcomes:
\* Suspended when the source reported insufficient data, Failure when it
\* reported a hard failure, CompleteNull or CompleteValue when no read failed.
C7_FourOutcomes ==
    ret.tag \notin {"Idle", "Abort"}
      => /\ (obs.srcErr = "WouldBlock") <=> Suspended(ret)
         /\ (obs.srcErr = "Io") <=> Failed(ret)
         /\ (obs.srcErr = "") <=> IsComplete(ret)
         /\ ~(Suspended(ret) /\ Failed(ret))

C7_Witness ==
    /\ Suspended(ret)
    /\ obs.srcErr = "WouldBlock"
    /\ obs.site = "header"

\* C8: a hard failure of the source during a read is returned as it is by that
\* same call: a call in which a read failed returns no Complete outcome and
\* makes no further read.
C8_FailureSurfaces ==
    obs.fails > 0
      => /\ ret = Err(obs.srcErr)
         /\ obs.fails = 1
         /\ ~obs.after

C8_Witness ==
    /\ Failed(ret)
    /\ obs.fails = 1
    /\ obs.site = "body"
    /\ data.some
    /\ Len(data.buf) >= 1

\* C9 (as claimed): once every byte of the value has arrived, a call does not
\* stay Suspended: the value completes.
C9_CompletesOnceArrived ==
    (obs.all /\ Suspended(ret)) => hist.values >= 1

\* C10: the buffer leaves the state only in the call that returns
\* CompleteValue, which hands it out whole and leaves the field absent; a call
\* that returns Suspended or a failure keeps the buffer and what it holds.
C10_SingleTransfer ==
    [][/\ ret'.tag = "ReadySome" => ~data'.some
       /\ (data.some /\ ~data'.some)
            => (ret'.tag = "ReadySome" /\ IsPrefix(data.buf, ret'.val))
       /\ (data.some /\ ret'.tag = "Err")
            => (data'.some /\ IsPrefix(data.buf, data'.buf))]_vars

C10_Witness ==
    /\ ret.tag = "ReadySome"
    /\ ~data.some
    /\ hist.suspBody
    /\ hist.values = 1
    /\ Len(ret.val) = MaxLen

\* C11: a read of the source that fails, with insufficient data or with a hard
\* failure, leaves mode, data and chunk_data_left exactly as they were when the
\* read was attempted: a failed prefix read leaves the state as the call found
\* it, with no buffer; a failed chunk-header read leaves chunk_data_left at 0;
\* a failed body-byte read neither counts a byte nor appends one.
C11_FailedReadFrame ==
    [][obs'.fails > 0
         => /\ mode' = mode
            /\ data' = obs'.pre.data
            /\ chunk_data_left' = obs'.pre.left
            /\ obs'.site = "prefix"
                 => (~data'.some /\ data' = data /\ chunk_data_left' = chunk_data_left)
            /\ obs'.site = "header" => (data'.some /\ chunk_data_left' = 0)
            /\ obs'.site = "body"
                 => (data'.some /\ chunk_data_left' > 0
                     /\ (data.some => IsPrefix(data.buf, data'.buf)))
       ]_vars

C11_Witness ==
    /\ obs.fails > 0
    /\ obs.site = "body"
    /\ obs.srcErr = "WouldBlock"
    /\ data = obs.pre.data
    /\ Len(data.buf) >= 2
    /\ chunk_data_left = obs.pre.left
    /\ chunk_data_left >= 1

\* C12 (as claimed): between calls the buffer is absent exactly when the decoder
\* has not yet consumed a size prefix.
C12_AbsentIffNoPrefix ==
    mode # Unset => (~data.some <=> hist.prefixes = 0)

\* C12 (amended): between calls that returned, the buffer is present exactly
\* when a size prefix has been consumed for a value that has not been returned
\* yet: it is absent before the prefix is read, after a NULL prefix and after
\* the buffer was handed out.
C12_PresentIffValueOpen ==
    (mode # Unset /\ ret.tag # "Abort")
      => /\ data.some <=> (hist.prefixes = hist.values + 1)
         /\ ~data.some <=> (hist.prefixes = hist.values)

C12_Witness ==
    /\ ~data.some
    /\ hist.prefixes = 1
    /\ hist.values = 1
    /\ ret.tag = "ReadySome"
    /\ Len(ret.val) >= 1

\* C13: whenever the buffer is present, the bytes in it and chunk_data_left add
\* up to the lengths read from the source for this value: the 2-byte prefix in
\* FixedSize mode, the chunk headers read so far in Plp mode (0 right after the
\* prefix); chunk_data_left never goes below 0.
C13_ChunkAccounting ==
    /\ chunk_data_left >= 0
    /\ data.some => Len(data.buf) + chunk_data_left = hist.declared
    /\ (data.some /\ mode.kind = "FixedSize" /\ ~hist.torn)
         => hist.declared = stream[hist.start + 1] + 256 * stream[hist.start + 2]
    /\ (data.some /\ mode.kind = "Plp" /\ ~hist.head) => chunk_data_left = 0

C13_Witness ==
    /\ mode.kind = "Plp"
    /\ data.some
    /\ hist.prefixes = 1
    /\ Len(data.buf) = 3
    /\ chunk_data_left = 1
    /\ hist.declared = 4
    /\ Len(wire.chunks) = 2

\* C14 (as claimed): in Plp mode a prefix that is not the NULL sentinel is only
\* a hint: whatever its value, the call is not rejected and the value returned
\* is the concatenation of the chunks up to the zero-length terminator.
C14_PrefixOnlyHint ==
    (mode.kind = "Plp" /\ ~wire.null /\ ~hist.torn)
      => /\ ret.tag # "Abort"
         /\ FirstDone => ret = Ready(Some(Expected))

\* C15: when a call returns a Complete outcome the decoder has consumed, over
\* all the calls made for this value, exactly 2 + L bytes in FixedSize mode (L
\* the 2-byte prefix value), exactly 8 bytes for a PLP NULL, and exactly
\* 8 + the sum of (4 + chunk length) + 4 bytes for a PLP value; before that it
\* has consumed no more, so nothing after the zero-length terminator is read
\* and the source stands at the first byte of the next value.
C15_ExactConsumption ==
    ~hist.torn
      => /\ (IsComplete(ret) /\ mode.kind = "FixedSize")
              => pos - obs.from = 2 + U16At(obs.from)
         /\ (FirstDone /\ mode.kind = "Plp")
              => /\ obs.from = 0
                 /\ pos = IF wire.null THEN 8 ELSE 8 + ChunkBytes(wire.chunks) + 4
         /\ FirstDone => pos = Len(stream) - Len(wire.tail)
         /\ hist.values = 0 => pos <= Len(stream) - Len(wire.tail)

C15_Witness ==
    /\ FirstDone
    /\ ~hist.torn
    /\ hist.suspHead
    /\ mode.kind = "Plp"
    /\ Len(wire.chunks) = 2
    /\ pos = 8 + ChunkBytes(wire.chunks) + 4
    /\ avail = Len(stream)

\* C16: in FixedSize mode no call returns CompleteNull: every 2-byte prefix,
\* 0xffff included, is a length, so the call that reads it creates the buffer
\* and expects that many body bytes.
C16_FixedSizeNeverNull ==
    mode.kind = "FixedSize"
      => /\ ret.tag # "ReadyNone"
         /\ IsComplete(ret) => ret.tag = "ReadySome"
         /\ hist.declared = 65535
              => (data.some /\ Len(data.buf) + chunk_data_left = 65535)
         /\ (~hist.torn /\ hist.prefixes > hist.values /\ U16At(hist.start) = 65535)
              => (data.some /\ hist.declared = 65535)

C16_Witness ==
    /\ mode.kind = "FixedSize"
    /\ ~hist.torn
    /\ hist.values = 1
    /\ U16At(hist.start) = 65535
    /\ data = Some(<<7>>)
    /\ chunk_data_left = 65534
    /\ Suspended(ret)

\* the source as one call may find it: the bytes up to lim, then the error kind
SourcesNow ==
    {[bytes |-> stream, lim |-> lim, kind |-> kind, atomic |-> atomic, allocOk |-> TRUE] :
        lim \in pos..avail, kind \in {"WouldBlock", "Io"}}

\* C17: in FixedSize(n) mode the n carried by the mode is never consulted: from
\* every state, on every source, a call does and returns the same for every n,
\* so decoders that differ in n only go through the same states; the value
\* returned has the length L of the 2-byte prefix on the stream and is the L
\* bytes that follow it, also where L differs from n.
C17_ModeSizeUnused ==
    mode.kind = "FixedSize"
      => /\ \A n2 \in {h \in Hints : h < 65535} : \A src \in SourcesNow :
               read(FixedSize(n2), data, chunk_data_left, src, pos)
                 = read(mode, data, chunk_data_left, src, pos)
         /\ (FirstDone /\ ~hist.torn)
              => /\ Len(ret.val) = U16At(0)
                 /\ ret.val = SubSeq(stream, 3, 2 + U16At(0))

C17_Witness ==
    /\ mode = FixedSize(1)
    /\ U16At(0) = MaxLen
    /\ FirstDone
    /\ ~hist.torn
    /\ Len(ret.val) = MaxLen
    /\ read(FixedSize(0), None, 0, [bytes |-> stream, lim |-> Len(stream),
                                    kind |-> "WouldBlock", atomic |-> atomic,
                                    allocOk |-> TRUE], 0).ret = ret

\* C18: when a call returns a Complete outcome, NULL or value, the state's
\* fields are those of a freshly constructed state of the same mode; a further
\* call is not rejected: its first read is that of a size prefix, and the value
\* it goes on to complete is the one a fresh state decodes from that position.
C18_ResetOnCompletion ==
    IsComplete(ret)
      => /\ [mode |-> mode, data |-> data, chunk_data_left |-> chunk_data_left]
              = new(mode)
         /\ \A src \in SourcesNow :
               /\ read(mode, data, chunk_data_left, src, pos)
                    = read(mode, new(mode).data, new(mode).chunk_data_left, src, pos)
               /\ \/ read(mode, data, chunk_data_left, src, pos).log.prefix
                  \/ read(mode, data, chunk_data_left, src, pos).site = "prefix"
         /\ ~hist.torn
              => ret = read(mode, None, 0,
                            [bytes |-> stream, lim |-> pos, kind |-> "WouldBlock",
                             atomic |-> TRUE, allocOk |-> TRUE], obs.from).ret

C18_Witness ==
    /\ IsComplete(ret)
    /\ hist.values = 2
    /\ hist.prefixes = 2
    /\ ~hist.torn
    /\ obs.from = Len(stream) - Len(wire.tail)
    /\ ret = Ready(Some(<<7>>))
    /\ data = None
    /\ chunk_data_left = 0

====
